---------------------------- MODULE Spec2Model ----------------------------
(***************************************************************************)
(* Model of the real-time audio pipeline of the Pico USB audio loopback    *)
(* firmware: the single-producer/single-consumer ring buffer               *)
(* (src/src/ringbuffer.c) and the audio task with its two USB callbacks    *)
(* (src/src/main.c).                                                        *)
(*                                                                         *)
(* Geometry.  The firmware moves quanta of FRAME_LENGTH = 48 stereo frames *)
(* (96 samples) through rings of RINGBUF_FRAMES = 8 quanta (768 samples).  *)
(* The model scales both numbers down and derives every size from them     *)
(* exactly as the headers do: a ring of RINGBUF_FRAMES quanta stores at    *)
(* most RINGBUF_FRAMES - 1 whole quanta, as in the firmware.               *)
(***************************************************************************)
EXTENDS Integers, Sequences, FiniteSets, TLC

(* ------------------------------ bounds --------------------------------- *)
\* frames per 1 ms quantum (the source: 48)
FRAME_LENGTH == 1
\* quanta per ring (the source: 8)
RINGBUF_FRAMES == 2
\* the ring specification pushes at most MaxLaps * RINGBUF_CAPACITY samples
MaxLaps == 2
\* the host sends at most MaxPackets packets
MaxPackets == 2
\* the reverb's delay lengths are those of the source divided by DELAY_DIV
DELAY_DIV == 4000
\* the clock specification counts at most MaxTicks transmit ticks
MaxTicks == 4
\* the reverb specification processes at most MaxFxFrames frames
MaxFxFrames == 4
\* cells of the granular capture buffer (the source: 16384)
BUFFER_SIZE == 3
\* samples of a grain's fade-in and fade-out (the source: 512)
GRAIN_FADE == 1
\* grain length the effect starts with (the source: 2048)
GRAIN_LENGTH_0 == 1
\* the granular specification processes at most MaxGranFrames frames and
\* makes at most MaxParamCalls calls of fx_set_param
MaxGranFrames == 3
MaxParamCalls == 1

(* ------------------------- program constants --------------------------- *)
AUDIO_NUM_CHANNELS == 2
AUDIO_BYTES_PER_SAMPLE == 4
AUDIO_FRAME_SAMPLES == FRAME_LENGTH
AUDIO_FRAME_BYTES == AUDIO_FRAME_SAMPLES * AUDIO_NUM_CHANNELS * AUDIO_BYTES_PER_SAMPLE
\* number of int32_t cells of ringbuffer_t.buffer
RINGBUF_CELLS == RINGBUF_FRAMES * AUDIO_FRAME_BYTES
\* number of cells the indices range over (sizeof(int32_t) = 4)
RINGBUF_CAPACITY == (RINGBUF_FRAMES * AUDIO_FRAME_BYTES) \div 4

MaxPushed == MaxLaps * RINGBUF_CAPACITY

(* ------------------------------ state ---------------------------------- *)
VARIABLES
    rb,        \* the ring buffer under test: [buffer, read, write]
    pushed,    \* history: number of samples handed to the successful pushes
    rb_out,    \* history: samples returned by the successful pops, in order
    last,      \* history: the last ringbuffer call, its arguments and result
    \* --- main.c ---
    rx_buffer,              \* host -> device ring
    tx_buffer,              \* device -> host ring
    scratch_in,             \* int32_t scratch_in[]
    scratch_out,            \* int32_t scratch_out[]
    frac_acc,               \* uint64_t
    current_sampling_rate,  \* uint16_t
    host_rate,              \* what usb_audio_get_config reports (uint32_t)
    rev,                    \* the reverb (fx_reverb_rp2040.c)
    master_gain,            \* MASTER_GAIN_Q15 as the build evaluated it
    pc,                     \* where audio_task stands
    loc,                    \* audio_task's position inside a ring call
    rx_count,               \* number of host samples received so far
    rx_packets,             \* number of packets the host has sent so far
    \* --- history ---
    rx_live,                \* samples pushed into rx_buffer, not yet popped
    tx_live,                \* samples pushed into tx_buffer, not yet popped
    blk,                    \* the block the task's ring call is moving
    hist,                   \* how the latest audio_task invocation went
    clk,                    \* transmit ticks counted since the rate last changed
    rlast,                  \* history: the reverb's calls since fx_init
    gran,                   \* the granular effect (fx_granular_rp2040.c)
    glast,                  \* history: the granular effect's calls since fx_init
    twin                    \* a second run of the reverb, to compare two runs

ringVars == <<rb, pushed, rb_out, last>>
pipeVars == <<rx_buffer, tx_buffer, scratch_in, scratch_out, frac_acc,
              current_sampling_rate, host_rate, rev, master_gain, pc, loc,
              rx_count, rx_packets, rx_live, tx_live, blk, hist>>
vars == <<rb, pushed, rb_out, last, rx_buffer, tx_buffer, scratch_in, scratch_out,
          frac_acc, current_sampling_rate, host_rate, rev, master_gain, pc, loc,
          rx_count, rx_packets, rx_live, tx_live, blk, hist, clk, rlast, gran, glast,
          twin>>
\* state outside the ring under test and outside main.c
sideVars == <<clk, rlast, gran, glast, twin>>

(* ---------------------------- helpers ---------------------------------- *)
Min(a, b) == IF a < b THEN a ELSE b

\* the k-th sample container of the host stream: a Q15 value in the high 16
\* bits and non-zero padding in the low 16 bits; distinct for distinct k
HostSample(k) == k * 65536 + k

HostBlock(from, n) == [i \in 1..n |-> HostSample(from + i)]

\* memcpy(&dst[off], src + soff, cnt * sizeof(int32_t)); dst is an array
\* indexed from 0, src a sequence whose element 0 is src[1]
memcpy_to(dst, off, src, soff, cnt) ==
    [i \in DOMAIN dst |->
        IF off <= i /\ i < off + cnt THEN src[soff + (i - off) + 1] ELSE dst[i]]

\* memcpy(dst + doff, &arr[off], cnt * sizeof(int32_t)) seen as the cnt
\* values it copies
memcpy_from(arr, off, cnt) == [i \in 1..cnt |-> arr[off + i - 1]]

(* --------------------------- ringbuffer.c ------------------------------ *)
ringbuffer_0 ==
    [buffer |-> [i \in 0..(RINGBUF_CELLS - 1) |-> 0], read |-> 0, write |-> 0]

rb_wrap(idx) == idx % RINGBUF_CAPACITY

\* a size that is one short once the write index has wrapped
ringbuffer_size_short(b) ==
    LET r == b.read
        w == b.write
    IN  IF w >= r THEN w - r ELSE (RINGBUF_CAPACITY - 1) - (r - w)

ringbuffer_size(b) ==
    LET r == b.read
        w == b.write
    IN  IF w >= r THEN w - r ELSE RINGBUF_CAPACITY - (r - w)

ringbuffer_capacity(b) == (RINGBUF_CAPACITY - 1) - ringbuffer_size(b)

\* a push whose second memcpy restarts at src instead of src + first
ringbuffer_push_nosplit(b, src, n) ==
    IF n = 0 \/ n > ringbuffer_capacity(b)
    THEN [rb |-> b, ret |-> FALSE]
    ELSE LET w == b.write
             first == Min(RINGBUF_CAPACITY - w, n)
             b1 == memcpy_to(b.buffer, w, src, 0, first)
             remain == n - first
             b2 == IF remain # 0 THEN memcpy_to(b1, 0, src, 0, remain) ELSE b1
         IN  [rb |-> [b EXCEPT !.buffer = b2, !.write = rb_wrap(w + n)],
              ret |-> TRUE]

\* a push that accepts a block filling the last free slot as well
ringbuffer_push_full(b, src, n) ==
    IF n = 0 \/ n > ringbuffer_capacity(b) + 1
    THEN [rb |-> b, ret |-> FALSE]
    ELSE LET w == b.write
             first == Min(RINGBUF_CAPACITY - w, n)
             b1 == memcpy_to(b.buffer, w, src, 0, first)
             remain == n - first
             b2 == IF remain # 0 THEN memcpy_to(b1, 0, src, first, remain) ELSE b1
         IN  [rb |-> [b EXCEPT !.buffer = b2, !.write = rb_wrap(w + n)],
              ret |-> TRUE]

ringbuffer_push(b, src, n) ==
    IF n = 0 \/ n > ringbuffer_capacity(b)
    THEN [rb |-> b, ret |-> FALSE]
    ELSE LET w == b.write
             first == Min(RINGBUF_CAPACITY - w, n)
             b1 == memcpy_to(b.buffer, w, src, 0, first)
             remain == n - first
             b2 == IF remain # 0 THEN memcpy_to(b1, 0, src, first, remain) ELSE b1
         IN  [rb |-> [b EXCEPT !.buffer = b2, !.write = rb_wrap(w + n)],
              ret |-> TRUE]

\* a pop that hands out whatever is there when fewer than n samples are live
ringbuffer_pop_partial(b, n) ==
    IF n = 0 \/ ringbuffer_size(b) = 0
    THEN [rb |-> b, ret |-> FALSE, dst |-> <<>>]
    ELSE LET m == Min(n, ringbuffer_size(b))
             r == b.read
             first == Min(RINGBUF_CAPACITY - r, m)
             d1 == memcpy_from(b.buffer, r, first)
             remain == m - first
             d2 == IF remain # 0 THEN d1 \o memcpy_from(b.buffer, 0, remain) ELSE d1
         IN  [rb |-> [b EXCEPT !.read = rb_wrap(r + m)], ret |-> TRUE, dst |-> d2]

\* a pop that copies n cells in one piece, past the wrap-around point
ringbuffer_pop_linear(b, n) ==
    IF n = 0 \/ n > ringbuffer_size(b)
    THEN [rb |-> b, ret |-> FALSE, dst |-> <<>>]
    ELSE LET r == b.read
         IN  [rb |-> [b EXCEPT !.read = rb_wrap(r + n)], ret |-> TRUE,
              dst |-> memcpy_from(b.buffer, r, n)]

\* dst is the block written to the caller's array (empty when nothing is)
ringbuffer_pop(b, n) ==
    IF n = 0 \/ n > ringbuffer_size(b)
    THEN [rb |-> b, ret |-> FALSE, dst |-> <<>>]
    ELSE LET r == b.read
             first == Min(RINGBUF_CAPACITY - r, n)
             d1 == memcpy_from(b.buffer, r, first)
             remain == n - first
             d2 == IF remain # 0 THEN d1 \o memcpy_from(b.buffer, 0, remain) ELSE d1
         IN  [rb |-> [b EXCEPT !.read = rb_wrap(r + n)], ret |-> TRUE, dst |-> d2]

(* ------------------------ fx_reverb_rp2040.c --------------------------- *)
\* conversion of an int to int16_t (two's complement, modulo 2^16)
Wrap16(x) == ((x + 32768) % 65536) - 32768

sat16(x) == IF x > 32767 THEN 32767 ELSE IF x < -32768 THEN -32768 ELSE x

\* x >> 16 on int32_t is the floor of x / 2^16
to_q15(x) == sat16(x \div 65536)
from_q15(q) == q * 65536
mul_q15(a, b) == sat16((a * b) \div 32768)

NUM_COMB == 8
NUM_AP == 4
\* F32_Q15(0.50f), F32_Q15(0.40f), F32_Q15(1.0f)
WET_Q15 == 16384
DRY_Q15 == 16384
AP_GAIN_Q15 == 16384
DAMP_Q15 == 13107
ONE_Q15 == 32767
\* F32_Q15(1.50f) converts 49151.0f to int16_t, which cannot represent it:
\* the conversion is undefined; a build either saturates or wraps it
MASTER_GAIN_BUILDS == {32767, -16385}

\* the delay tables of the source, divided by DELAY_DIV (at least 1 sample)
ScaleDelay(len) == (len \div DELAY_DIV) + 1
COMB_DLY_L == [k \in 0..(NUM_COMB - 1) |->
    ScaleDelay(<<509, 863, 1481, 2521, 4273, 7253, 10007, 15013>>[k + 1])]
COMB_DLY_R == [k \in 0..(NUM_COMB - 1) |->
    ScaleDelay(<<523, 877, 1489, 2531, 4283, 7283, 10037, 15031>>[k + 1])]
AP_DLY_L == [k \in 0..(NUM_AP - 1) |-> ScaleDelay(<<142, 396, 1071, 3079>>[k + 1])]
AP_DLY_R == [k \in 0..(NUM_AP - 1) |-> ScaleDelay(<<145, 399, 1073, 3081>>[k + 1])]
PREDELAY_SAMPLES == ScaleDelay(960)

\* F32_Q15 of 0.62, 0.60, 0.58, 0.55, 0.52, 0.50, 0.48, 0.45
comb_gain == [k \in 0..(NUM_COMB - 1) |->
    <<20316, 19660, 19005, 18022, 17039, 16384, 15728, 14745>>[k + 1]]

\* (int16_t)(g * 32767.f + 0.5f) for g = powf(10, -3 * COMB_DLY_L[i] / 48000 /
\* comb_T60[i]) of the source's tables, none of which reaches MAX_FB
comb_fb == [k \in 0..(NUM_COMB - 1) |->
    <<24445, 21659, 19232, 20820, 24094, 27535, 28372, 29412>>[k + 1]]

ZeroBuf(len) == [i \in 0..(len - 1) |-> 0]

\* init_filters(): calloc'ed delay lines, zero cursors and filter memories,
\* feedback and allpass gains, pred_idx = 0, enabled; the static pre-delay
\* arrays are not written by init_filters and are passed in
init_filters(pL, pR) ==
    [L  |-> [k \in 0..(NUM_COMB - 1) |->
                [buf |-> ZeroBuf(COMB_DLY_L[k]), size |-> COMB_DLY_L[k], idx |-> 0,
                 fb |-> comb_fb[k], filt |-> 0]],
     R  |-> [k \in 0..(NUM_COMB - 1) |->
                [buf |-> ZeroBuf(COMB_DLY_R[k]), size |-> COMB_DLY_R[k], idx |-> 0,
                 fb |-> comb_fb[k], filt |-> 0]],
     AL |-> [k \in 0..(NUM_AP - 1) |->
                [buf |-> ZeroBuf(AP_DLY_L[k]), size |-> AP_DLY_L[k], idx |-> 0,
                 g |-> AP_GAIN_Q15]],
     AR |-> [k \in 0..(NUM_AP - 1) |->
                [buf |-> ZeroBuf(AP_DLY_R[k]), size |-> AP_DLY_R[k], idx |-> 0,
                 g |-> AP_GAIN_Q15]],
     enabled |-> TRUE,
     pred_idx |-> 0,
     predL |-> pL,
     predR |-> pR]

\* a comb that feeds its output back undamped and at full gain
comb_process_lossless(c, x) ==
    LET d == c.buf[c.idx]
    IN  [c |-> [c EXCEPT !.buf = [c.buf EXCEPT ![c.idx] = sat16(x + d)],
                         !.idx = IF c.idx + 1 = c.size THEN 0 ELSE c.idx + 1],
         ret |-> d]

\* a comb that never gives anything back
comb_process_dead(c, x) == [c |-> c, ret |-> 0]

\* comb_process(c, x): the comb after the call and the value returned
comb_process(c, x) ==
    LET d == c.buf[c.idx]
        fb_q15 == Wrap16((c.fb * d) \div 32768)
        filt == Wrap16(mul_q15(c.filt, sat16(ONE_Q15 - DAMP_Q15)) + mul_q15(fb_q15, DAMP_Q15))
        w == x + filt
    IN  [c |-> [c EXCEPT !.filt = filt,
                         !.buf = [c.buf EXCEPT ![c.idx] = sat16(w)],
                         !.idx = IF c.idx + 1 = c.size THEN 0 ELSE c.idx + 1],
         ret |-> d]

\* ap_process(a, x)
ap_process(a, x) ==
    LET d == a.buf[a.idx]
        y == sat16(d - mul_q15(x, a.g))
    IN  [a |-> [a EXCEPT !.buf = [a.buf EXCEPT ![a.idx] = sat16(x + mul_q15(y, a.g))],
                         !.idx = IF a.idx + 1 = a.size THEN 0 ELSE a.idx + 1],
         ret |-> y]

\* the serial allpass chain over AL or AR: the filters after the sample and
\* the value leaving the last one
RECURSIVE ap_chain(_, _, _)
ap_chain(aps, x, k) ==
    IF k = NUM_AP THEN [aps |-> aps, ret |-> x]
    ELSE LET r == ap_process(aps[k], x)
         IN  ap_chain([aps EXCEPT ![k] = r.a], r.ret, k + 1)

\* sum over the comb bank of mul_q15(comb_process(&c[k], pre), comb_gain[k])
RECURSIVE comb_sum(_, _, _)
comb_sum(combs, pre, k) ==
    IF k = NUM_COMB THEN 0
    ELSE mul_q15(comb_process(combs[k], pre).ret, comb_gain[k]) + comb_sum(combs, pre, k + 1)

\* one iteration of the loop of fx_process (enabled): frame i of the block
\* in, with master gain mg; the reverb after it and the two containers
\* written to out[2i], out[2i+1]
fx_frame(rv, inL, inR, mg) ==
    LET dryL == to_q15(inL)
        dryR == to_q15(inR)
        preL == rv.predL[rv.pred_idx]
        preR == rv.predR[rv.pred_idx]
        wetL0 == sat16(comb_sum(rv.L, preL, 0))
        wetR0 == sat16(comb_sum(rv.R, preR, 0))
        apL == ap_chain(rv.AL, wetL0, 0)
        apR == ap_chain(rv.AR, wetR0, 0)
        mixL == sat16(mul_q15(dryL, DRY_Q15) + mul_q15(apL.ret, WET_Q15))
        mixR == sat16(mul_q15(dryR, DRY_Q15) + mul_q15(apR.ret, WET_Q15))
    IN  [rev |-> [rv EXCEPT
                    !.predL = [rv.predL EXCEPT ![rv.pred_idx] = dryL],
                    !.predR = [rv.predR EXCEPT ![rv.pred_idx] = dryR],
                    !.pred_idx = IF rv.pred_idx + 1 = PREDELAY_SAMPLES THEN 0
                                 ELSE rv.pred_idx + 1,
                    !.L = [k \in 0..(NUM_COMB - 1) |-> comb_process(rv.L[k], preL).c],
                    !.R = [k \in 0..(NUM_COMB - 1) |-> comb_process(rv.R[k], preR).c],
                    !.AL = apL.aps,
                    !.AR = apR.aps],
         outL |-> from_q15(mul_q15(mixL, mg)),
         outR |-> from_q15(mul_q15(mixR, mg))]

\* a frame loop that stores the right channel's dry sample in the left
\* pre-delay line
RECURSIVE fx_loop_crossfed(_, _, _, _, _)
fx_loop_crossfed(rv, in, out, i, mg) ==
    IF 2 * i >= Len(in) THEN [rev |-> rv, out |-> out]
    ELSE LET r == fx_frame(rv, in[2 * i + 1], in[2 * i + 2], mg)
             crossed == [r.rev EXCEPT
                           !.predL = [rv.predL EXCEPT ![rv.pred_idx] = to_q15(in[2 * i + 2])]]
         IN  fx_loop_crossfed(crossed, in,
                              [out EXCEPT ![2 * i + 1] = r.outL, ![2 * i + 2] = r.outR],
                              i + 1, mg)

\* the loop of fx_process from frame i on: in and out are sequences holding
\* in[0..2n-1], out[0..2n-1] at positions 1..2n
RECURSIVE fx_loop(_, _, _, _, _)
fx_loop(rv, in, out, i, mg) ==
    IF 2 * i >= Len(in) THEN [rev |-> rv, out |-> out]
    ELSE LET r == fx_frame(rv, in[2 * i + 1], in[2 * i + 2], mg)
         IN  fx_loop(r.rev, in, [out EXCEPT ![2 * i + 1] = r.outL, ![2 * i + 2] = r.outR],
                     i + 1, mg)

\* a bypass that re-quantises every container to its Q15 part
fx_process_requant(rv, in, out, mg) ==
    IF ~rv.enabled THEN [rev |-> rv, out |-> [j \in DOMAIN in |-> from_q15(to_q15(in[j]))]]
    ELSE fx_loop(rv, in, out, 0, mg)

\* fx_process(out, in, frames) with out != in: out is the block before the call
fx_process(rv, in, out, mg) ==
    IF ~rv.enabled THEN [rev |-> rv, out |-> in]
    ELSE fx_loop(rv, in, out, 0, mg)

\* a full-scale container, and frames a caller may hand in: silence, a
\* full-scale frame, a frame with extreme values and non-zero padding bits
FULL_SCALE == 32767 * 65536
FxFrames == {<<0, 0>>, <<FULL_SCALE, FULL_SCALE>>,
             <<(-32768) * 65536 + 65535, 12345 * 65536 + 1>>}
\* blocks of one or two frames
FxBlocks == {f : f \in FxFrames} \cup {f \o g : f \in FxFrames, g \in FxFrames}

\* nothing processed since fx_init; impulse: the input so far is a full-scale
\* frame followed by silence, all of it processed enabled; first: index of the
\* first frame after frame 0 whose output was not silence (0: none yet)
rlast_0 == [op |-> "init", n |-> 0, impulse |-> TRUE, first |-> 0,
            enabled |-> TRUE, in |-> <<>>, out |-> <<>>]

(* ----------------------- fx_granular_rp2040.c -------------------------- *)
NUM_GRAINS == 8
\* a < (uint32_t)x and a <= (uint32_t)x for a uint32_t a below 2^31 and an
\* int x: a negative x converts to a value of 2^31 or more
\* a comparison that lets the counter reach the limit
lt_u32_late(a, x) == IF x < 0 THEN TRUE ELSE a <= x

lt_u32(a, x) == IF x < 0 THEN TRUE ELSE a < x
le_u32(a, x) == IF x < 0 THEN TRUE ELSE a <= x

\* FX_MUL(a, b): (int16_t)(((int32_t)(a) * (b)) >> 15), no saturation
FX_MUL(a, b) == Wrap16((a * b) \div 32768)

\* F32_Q15((float)num / GRAIN_FADE) for 0 <= num <= GRAIN_FADE: the
\* truncation of num / GRAIN_FADE * 32767 + 0.5
F32_Q15_ratio(num) == (2 * 32767 * num + GRAIN_FADE) \div (2 * GRAIN_FADE)

\* the parameter IDs of fx_param.h, an enumeration
FX_PARAM_WET_MIX == 0
FX_PARAM_DRY_MIX == 1
FX_PARAM_GRAIN_LENGTH == 2
FX_PARAM_GRAIN_DENSITY == 3

\* the statics as the program image holds them, after fx_init(): buffer
\* zeroed, every grain idle
gran_0 ==
    [grain_length |-> GRAIN_LENGTH_0, grain_density |-> 8,
     wet_mix |-> 16384, dry_mix |-> 16384, freeze_enabled |-> FALSE,
     buffer |-> ZeroBuf(BUFFER_SIZE), write_pos |-> 0,
     grains |-> [j \in 0..(NUM_GRAINS - 1) |-> [pos |-> 0, counter |-> 0, active |-> FALSE]],
     fault |-> "none"]

\* fx_init(): the capture buffer is zeroed and every grain made idle; the
\* write cursor, the grains' counters and positions, the parameters and the
\* freeze flag are not written
gr_fx_init(g) ==
    [g EXCEPT !.buffer = ZeroBuf(BUFFER_SIZE),
              !.grains = [j \in 0..(NUM_GRAINS - 1) |->
                             [g.grains[j] EXCEPT !.active = FALSE]]]

\* fx_set_enable(en)
gr_fx_set_enable(g, en) == [g EXCEPT !.freeze_enabled = en]

\* a fx_set_param whose default case stores the value as the wet mix
gr_fx_set_param_default(g, id, val) ==
    IF id = FX_PARAM_WET_MIX THEN [g EXCEPT !.wet_mix = val]
    ELSE IF id = FX_PARAM_DRY_MIX THEN [g EXCEPT !.dry_mix = val]
    ELSE IF id = FX_PARAM_GRAIN_LENGTH THEN [g EXCEPT !.grain_length = 256 + (val \div 2)]
    ELSE IF id = FX_PARAM_GRAIN_DENSITY THEN [g EXCEPT !.grain_density = 1 + (val \div 2048)]
    ELSE [g EXCEPT !.wet_mix = val]

\* fx_set_param(id, val); val >> 1 and val >> 11 are floors
gr_fx_set_param(g, id, val) ==
    IF id = FX_PARAM_WET_MIX THEN [g EXCEPT !.wet_mix = val]
    ELSE IF id = FX_PARAM_DRY_MIX THEN [g EXCEPT !.dry_mix = val]
    ELSE IF id = FX_PARAM_GRAIN_LENGTH THEN [g EXCEPT !.grain_length = 256 + (val \div 2)]
    ELSE IF id = FX_PARAM_GRAIN_DENSITY THEN [g EXCEPT !.grain_density = 1 + (val \div 2048)]
    ELSE g

\* the envelope of an active grain; counter is uint32_t, so both
\* comparisons and the difference grain_length - counter are unsigned; a
\* ratio above 1 (a difference above GRAIN_FADE, a negative one included)
\* does not fit int16_t and its conversion is undefined: ub_env is what the
\* build makes of it
grain_envelope(counter, gl, ub_env) ==
    IF counter < GRAIN_FADE THEN F32_Q15_ratio(counter)
    ELSE IF ~le_u32(counter, gl - GRAIN_FADE)
         THEN LET num == gl - counter
              IN  IF 0 <= num /\ num <= GRAIN_FADE THEN F32_Q15_ratio(num) ELSE ub_env
         ELSE ONE_Q15

\* the loop over the grain slots from slot j on, for one sample.  acc
\* carries wet_sample and the buffer cells read.  inp is what the call gets
\* from outside: rand[j], the value rand() returns to slot j, and what the
\* build makes of undefined operations (div0_traps, ub_env).  A slot past
\* the pool, or a trapping division, ends processing with fault set.
RECURSIVE grain_loop(_, _, _, _)
grain_loop(g, j, acc, inp) ==
    IF j >= g.grain_density THEN [g |-> g, wet |-> acc.wet, reads |-> acc.reads]
    ELSE IF j >= NUM_GRAINS
    THEN [g |-> [g EXCEPT !.fault = "oob"], wet |-> acc.wet, reads |-> acc.reads]
    ELSE LET gr == g.grains[j]
         IN  IF gr.active
             THEN LET envelope == grain_envelope(gr.counter, g.grain_length, inp.ub_env)
                      read_pos == (gr.pos + gr.counter) % BUFFER_SIZE
                      counter == gr.counter + 1
                      g1 == [g EXCEPT !.grains[j] =
                               [pos |-> gr.pos, counter |-> counter,
                                active |-> lt_u32(counter, g.grain_length)]]
                  IN  grain_loop(g1, j + 1,
                                 [wet |-> acc.wet + FX_MUL(g.buffer[read_pos], envelope),
                                  reads |-> acc.reads
                                     \cup {[pos |-> read_pos, val |-> g.buffer[read_pos]]}],
                                 inp)
             ELSE LET window == BUFFER_SIZE - g.grain_length
                      absw == IF window < 0 THEN -window ELSE window
                      off == IF window = 0 THEN inp.rand[j] ELSE inp.rand[j] % absw
                      g1 == [g EXCEPT !.grains[j] =
                               [pos |-> (g.write_pos + off) % BUFFER_SIZE,
                                counter |-> 0, active |-> TRUE]]
                  IN  IF window = 0 /\ inp.div0_traps
                      THEN [g |-> [g EXCEPT !.fault = "div0"], wet |-> acc.wet,
                            reads |-> acc.reads]
                      ELSE grain_loop(g1, j + 1, acc, inp)

\* a capture that goes on while freeze is on
capture_always(g, in_l, in_r) ==
    [g EXCEPT !.buffer[g.write_pos] = (in_l + in_r) \div 2,
              !.write_pos = (g.write_pos + 1) % BUFFER_SIZE]

\* if (!freeze_enabled) { buffer[write_pos] = (in_l + in_r) >> 1;
\* write_pos = (write_pos + 1) % BUFFER_SIZE; }
capture(g, in_l, in_r) ==
    IF g.freeze_enabled THEN g
    ELSE [g EXCEPT !.buffer[g.write_pos] = (in_l + in_r) \div 2,
                   !.write_pos = (g.write_pos + 1) % BUFFER_SIZE]

\* one iteration of the loop of fx_process: the effect after it, the two
\* containers written, wet_out and the buffer cells the grains read
gr_fx_frame(g, inL, inR, inp) ==
    LET in_l == inL \div 65536
        in_r == inR \div 65536
        g1 == capture(g, in_l, in_r)
        r == grain_loop(g1, 0, [wet |-> 0, reads |-> {}], inp)
        wet_out == sat16(r.wet)
        out_l == Wrap16(FX_MUL(in_l, g.dry_mix) + FX_MUL(wet_out, g.wet_mix))
        out_r == Wrap16(FX_MUL(in_r, g.dry_mix) + FX_MUL(wet_out, g.wet_mix))
    IN  [g |-> r.g, outL |-> out_l * 65536, outR |-> out_r * 65536,
         wet_out |-> wet_out, reads |-> r.reads]

\* fx_process(out, in, frames) from frame i on; acc carries out, the
\* wet_out of every frame and the buffer cells read; a fault ends the call
RECURSIVE gr_fx_loop(_, _, _, _, _)
gr_fx_loop(g, in, i, acc, inp) ==
    IF 2 * i >= Len(in) THEN [g |-> g, out |-> acc.out, wet |-> acc.wet, reads |-> acc.reads]
    ELSE LET r == gr_fx_frame(g, in[2 * i + 1], in[2 * i + 2], inp)
         IN  IF r.g.fault # "none"
             THEN [g |-> r.g, out |-> acc.out, wet |-> acc.wet, reads |-> acc.reads \cup r.reads]
             ELSE gr_fx_loop(r.g, in, i + 1,
                             [out |-> [acc.out EXCEPT ![2 * i + 1] = r.outL,
                                                      ![2 * i + 2] = r.outR],
                              wet |-> Append(acc.wet, r.wet_out),
                              reads |-> acc.reads \cup r.reads],
                             inp)

\* fx_process(out, in, Len(in) / 2)
gr_fx_process(g, in, out, inp) ==
    gr_fx_loop(g, in, 0, [out |-> out, wet |-> <<>>, reads |-> {}], inp)

\* no call of the granular effect since fx_init.  frames and params count
\* the frames processed and the fx_set_param calls; frozen: freeze was on
\* during the last fx_process; snap: the capture buffer as it was when
\* freeze was last switched on; in, out, wet, reads: the last fx_process
glast_0 == [op |-> "init", id |-> 0, frames |-> 0, params |-> 0,
            frozen |-> FALSE, snap |-> ZeroBuf(BUFFER_SIZE),
            in |-> <<>>, out |-> <<>>, wet |-> <<>>, reads |-> {}, lenfixed |-> TRUE]

(* ------------------------------ main.c --------------------------------- *)
\* sizeof(int32_t) * 2 cells per frame slot, SCRATCH_FRAMES slots (the
\* source: 64 slots next to quanta of 48 frames)
SCRATCH_FRAMES == FRAME_LENGTH + 1
SCRATCH_CELLS == SCRATCH_FRAMES * 4 * 2
USB_SOF_HZ == 1000
\* the rate the device starts at: FRAME_LENGTH frames per USB frame
NominalRate == USB_SOF_HZ * FRAME_LENGTH
\* rates the host may select; the last one does not fit 16 bits
HostRates == {NominalRate, 2 * NominalRate, 65536 + 2 * NominalRate}
\* a quantum one sample longer than whole frames
rx_samples_odd == FRAME_LENGTH * 2 + 1
\* samples per quantum moved by audio_task
rx_samples == FRAME_LENGTH * 2
\* sizes, in samples, of the packets the receive callback is handed
RxSizes == (rx_samples - 1)..(rx_samples + 1)
ShortReads == BOOLEAN

\* the second run starts as the first: a freshly initialised reverb; sameL
\* and sameR tell whether the two runs have had the same left and the same
\* right input so far, out is the second run's latest output
twin_0 == [rev |-> init_filters(ZeroBuf(PREDELAY_SAMPLES), ZeroBuf(PREDELAY_SAMPLES)),
           sameL |-> TRUE, sameR |-> TRUE, out |-> <<>>]

\* no transmit tick counted yet
clk_0 == [total |-> 0, ticks |-> 0, frames |-> 0, rate |-> 0, acc0 |-> 0]

NoLoc == [idx0 |-> 0, k |-> 0]
NoCall == [op |-> "none", n |-> 0, ret |-> FALSE, r0 |-> 0, w0 |-> 0, rt |-> FALSE]

\* the state main() enters its loop with: zeroed statics, fx_init() done
PipeConstructed ==
    /\ rx_buffer = ringbuffer_0
    /\ tx_buffer = ringbuffer_0
    /\ scratch_in = ZeroBuf(SCRATCH_CELLS)
    /\ scratch_out = ZeroBuf(SCRATCH_CELLS)
    /\ frac_acc = 0
    /\ current_sampling_rate = NominalRate
    /\ host_rate = NominalRate
    /\ rev = init_filters(ZeroBuf(PREDELAY_SAMPLES), ZeroBuf(PREDELAY_SAMPLES))
    /\ master_gain \in MASTER_GAIN_BUILDS
    /\ pc = "idle"
    /\ loc = NoLoc
    /\ rx_count = 0
    /\ rx_packets = 0
    /\ rx_live = <<>>
    /\ tx_live = <<>>
    /\ blk = <<>>
    /\ hist = [outcome |-> "none", rate |-> 0]
    /\ clk = clk_0
    /\ rlast = rlast_0
    /\ gran = gran_0
    /\ glast = glast_0
    /\ twin = twin_0

InitPipe ==
    /\ rb = ringbuffer_0
    /\ pushed = 0
    /\ rb_out = <<>>
    /\ last = NoCall
    /\ PipeConstructed

\* the cell the k-th sample of a block of n goes to or comes from, for a
\* ring call that started at index idx0: the first memcpy covers the cells
\* up to the end of the array, the second restarts at cell 0
CellOf(idx0, k, n) ==
    LET first == Min(RINGBUF_CAPACITY - idx0, n)
    IN  IF k < first THEN idx0 + k ELSE k - first

\* the values array arr holds in cells 0..n-1, as a sequence
Block(arr, n) == [i \in 1..n |-> arr[i - 1]]

DropFirst(q, n) == SubSeq(q, n + 1, Len(q))

(* audio_task, one step per access to memory shared with the callbacks *)

\* usb_audio_get_config; if (sampling_rate != current_sampling_rate)
\* { current_sampling_rate = sampling_rate; return; }
T_RateCheck ==
    /\ pc = "idle"
    /\ IF host_rate # current_sampling_rate
       THEN /\ current_sampling_rate' = host_rate % 65536
            /\ pc' = "idle"
            /\ hist' = [outcome |-> "skipped", rate |-> host_rate]
       ELSE /\ current_sampling_rate' = current_sampling_rate
            /\ pc' = "enable"
            /\ hist' = [outcome |-> "running", rate |-> host_rate]
    /\ UNCHANGED <<rx_buffer, tx_buffer, scratch_in, scratch_out, frac_acc, host_rate,
                   rev, master_gain, loc, rx_count, rx_packets, rx_live, tx_live, blk>>
    /\ UNCHANGED ringVars
    /\ UNCHANGED sideVars

\* a task that goes on as soon as the input ring holds anything at all
T_EnableCheck_any(en) ==
    /\ pc = "enable"
    /\ rev' = [rev EXCEPT !.enabled = en]
    /\ IF ringbuffer_size(rx_buffer) >= 1
       THEN pc' = "pop" /\ hist' = hist
       ELSE pc' = "idle" /\ hist' = [hist EXCEPT !.outcome = "no_quantum"]
    /\ UNCHANGED <<rx_buffer, tx_buffer, scratch_in, scratch_out, frac_acc,
                   current_sampling_rate, host_rate, master_gain, loc, rx_count, rx_packets,
                   rx_live, tx_live, blk>>
    /\ UNCHANGED ringVars
    /\ UNCHANGED sideVars

\* fx_set_enable(bb_get_bootsel_button()); if (ringbuffer_size(&rx_buffer) >=
\* rx_samples) { ... }
T_EnableCheck(en) ==
    /\ pc = "enable"
    /\ rev' = [rev EXCEPT !.enabled = en]
    /\ IF ringbuffer_size(rx_buffer) >= rx_samples
       THEN pc' = "pop" /\ hist' = hist
       ELSE pc' = "idle" /\ hist' = [hist EXCEPT !.outcome = "no_quantum"]
    /\ UNCHANGED <<rx_buffer, tx_buffer, scratch_in, scratch_out, frac_acc,
                   current_sampling_rate, host_rate, master_gain, loc, rx_count, rx_packets,
                   rx_live, tx_live, blk>>
    /\ UNCHANGED ringVars
    /\ UNCHANGED sideVars

\* a pop that advances read before it has copied the cells out
T_Pop_early ==
    /\ pc = "pop"
    /\ IF rx_samples = 0 \/ rx_samples > ringbuffer_size(rx_buffer)
       THEN /\ pc' = "fx"
            /\ UNCHANGED <<loc, blk, rx_buffer, rx_live>>
       ELSE /\ pc' = "pop_copy"
            /\ loc' = [idx0 |-> rx_buffer.read, k |-> 0]
            /\ blk' = SubSeq(rx_live, 1, rx_samples)
            /\ rx_buffer' = [rx_buffer EXCEPT !.read = rb_wrap(rx_buffer.read + rx_samples)]
            /\ rx_live' = DropFirst(rx_live, rx_samples)
    /\ UNCHANGED <<tx_buffer, scratch_in, scratch_out, frac_acc,
                   current_sampling_rate, host_rate, rev, master_gain, rx_count, rx_packets,
                   tx_live, hist>>
    /\ UNCHANGED ringVars
    /\ UNCHANGED sideVars

\* ringbuffer_pop(&rx_buffer, scratch_in, rx_samples): the entry test and the
\* read of rb->read; blk is the block a FIFO has to deliver
T_Pop ==
    /\ pc = "pop"
    /\ IF rx_samples = 0 \/ rx_samples > ringbuffer_size(rx_buffer)
       THEN /\ pc' = "fx"
            /\ UNCHANGED <<loc, blk>>
       ELSE /\ pc' = "pop_copy"
            /\ loc' = [idx0 |-> rx_buffer.read, k |-> 0]
            /\ blk' = SubSeq(rx_live, 1, rx_samples)
    /\ UNCHANGED <<rx_buffer, tx_buffer, scratch_in, scratch_out, frac_acc,
                   current_sampling_rate, host_rate, rev, master_gain, rx_count, rx_packets,
                   rx_live, tx_live, hist>>
    /\ UNCHANGED ringVars
    /\ UNCHANGED sideVars

\* the two memcpy of ringbuffer_pop, one cell per step
T_PopCopy ==
    /\ pc = "pop_copy"
    /\ scratch_in' = [scratch_in EXCEPT
                        ![loc.k] = rx_buffer.buffer[CellOf(loc.idx0, loc.k, rx_samples)]]
    /\ loc' = [loc EXCEPT !.k = loc.k + 1]
    /\ pc' = IF loc.k + 1 = rx_samples THEN "pop_pub" ELSE "pop_copy"
    /\ UNCHANGED <<rx_buffer, tx_buffer, scratch_out, frac_acc,
                   current_sampling_rate, host_rate, rev, master_gain, rx_count, rx_packets,
                   rx_live, tx_live, blk, hist>>
    /\ UNCHANGED ringVars
    /\ UNCHANGED sideVars

\* rb->read = rb_wrap(r + n)
T_PopPub ==
    /\ pc = "pop_pub"
    /\ rx_buffer' = [rx_buffer EXCEPT !.read = rb_wrap(loc.idx0 + rx_samples)]
    /\ rx_live' = IF rx_buffer'.read = rx_buffer.read THEN rx_live
                  ELSE DropFirst(rx_live, rx_samples)
    /\ blk' = <<>>
    /\ loc' = NoLoc
    /\ pc' = "fx"
    /\ UNCHANGED <<tx_buffer, scratch_in, scratch_out, frac_acc,
                   current_sampling_rate, host_rate, rev, master_gain, rx_count, rx_packets,
                   tx_live, hist>>
    /\ UNCHANGED ringVars
    /\ UNCHANGED sideVars

\* fx_process(scratch_out, scratch_in, FRAME_LENGTH), one frame per step
T_Fx ==
    /\ pc = "fx"
    /\ LET i == loc.k
           r == fx_frame(rev, scratch_in[2 * i], scratch_in[2 * i + 1], master_gain)
       IN  IF ~rev.enabled
           THEN /\ scratch_out' = [scratch_out EXCEPT ![2 * i] = scratch_in[2 * i],
                                                      ![2 * i + 1] = scratch_in[2 * i + 1]]
                /\ rev' = rev
           ELSE /\ scratch_out' = [scratch_out EXCEPT ![2 * i] = r.outL,
                                                      ![2 * i + 1] = r.outR]
                /\ rev' = r.rev
    /\ loc' = IF loc.k + 1 = FRAME_LENGTH THEN NoLoc ELSE [loc EXCEPT !.k = loc.k + 1]
    /\ pc' = IF loc.k + 1 = FRAME_LENGTH THEN "push" ELSE "fx"
    /\ UNCHANGED <<rx_buffer, tx_buffer, scratch_in, frac_acc,
                   current_sampling_rate, host_rate, master_gain, rx_count, rx_packets,
                   rx_live, tx_live, blk, hist>>
    /\ UNCHANGED ringVars
    /\ UNCHANGED sideVars

\* ringbuffer_push(&tx_buffer, scratch_out, rx_samples): the entry test and
\* the read of rb->write; the result is not looked at by audio_task
T_Push ==
    /\ pc = "push"
    /\ IF rx_samples = 0 \/ rx_samples > ringbuffer_capacity(tx_buffer)
       THEN /\ pc' = "idle"
            /\ loc' = NoLoc
            /\ hist' = [hist EXCEPT !.outcome = "dropped"]
       ELSE /\ pc' = "push_copy"
            /\ loc' = [idx0 |-> tx_buffer.write, k |-> 0]
            /\ hist' = hist
    /\ blk' = <<>>
    /\ UNCHANGED <<rx_buffer, tx_buffer, scratch_in, scratch_out, frac_acc,
                   current_sampling_rate, host_rate, rev, master_gain, rx_count, rx_packets,
                   rx_live, tx_live>>
    /\ UNCHANGED ringVars
    /\ UNCHANGED sideVars

\* the two memcpy of ringbuffer_push, one cell per step; blk collects the
\* samples as they are read from scratch_out
T_PushCopy ==
    /\ pc = "push_copy"
    /\ tx_buffer' = [tx_buffer EXCEPT
                        !.buffer[CellOf(loc.idx0, loc.k, rx_samples)] = scratch_out[loc.k]]
    /\ blk' = Append(blk, scratch_out[loc.k])
    /\ loc' = [loc EXCEPT !.k = loc.k + 1]
    /\ pc' = IF loc.k + 1 = rx_samples THEN "push_pub" ELSE "push_copy"
    /\ UNCHANGED <<rx_buffer, scratch_in, scratch_out, frac_acc,
                   current_sampling_rate, host_rate, rev, master_gain, rx_count, rx_packets,
                   rx_live, tx_live, hist>>
    /\ UNCHANGED ringVars
    /\ UNCHANGED sideVars

\* rb->write = rb_wrap(w + n); return to the main loop
T_PushPub ==
    /\ pc = "push_pub"
    /\ tx_buffer' = [tx_buffer EXCEPT !.write = rb_wrap(loc.idx0 + rx_samples)]
    /\ tx_live' = IF tx_buffer'.write = tx_buffer.write THEN tx_live ELSE tx_live \o blk
    /\ blk' = <<>>
    /\ loc' = NoLoc
    /\ pc' = "idle"
    /\ hist' = [hist EXCEPT !.outcome = "pushed"]
    /\ UNCHANGED <<rx_buffer, scratch_in, scratch_out, frac_acc,
                   current_sampling_rate, host_rate, rev, master_gain, rx_count, rx_packets,
                   rx_live>>
    /\ UNCHANGED ringVars
    /\ UNCHANGED sideVars

AudioTaskStep ==
    \/ T_RateCheck
    \/ \E en \in BOOLEAN : T_EnableCheck(en)
    \/ T_Pop
    \/ T_PopCopy
    \/ T_PopPub
    \/ T_Fx
    \/ T_Push
    \/ T_PushCopy
    \/ T_PushPub

(* the USB callbacks: each runs to completion between two task steps *)

\* tud_audio_rx_done_pre_read_cb with n_bytes_received = 4 * n; short: the
\* transport hands over one sample less than announced
RxCallback(n, short) ==
    /\ rx_packets < MaxPackets
    /\ rx_packets' = rx_packets + 1
    /\ IF ringbuffer_capacity(rx_buffer) = 0
       THEN UNCHANGED <<scratch_in, rx_count, rx_buffer, rx_live>>
       ELSE LET got == IF short THEN n - 1 ELSE n
                data == HostBlock(rx_count, got)
                si == memcpy_to(scratch_in, 0, data, 0, got)
                res == ringbuffer_push(rx_buffer, Block(si, n), n)
            IN  /\ scratch_in' = si
                /\ rx_count' = rx_count + got
                /\ IF short
                   THEN UNCHANGED <<rx_buffer, rx_live>>
                   ELSE /\ rx_buffer' = res.rb
                        /\ rx_live' = IF res.ret THEN rx_live \o data ELSE rx_live
    /\ UNCHANGED <<tx_buffer, scratch_out, frac_acc, current_sampling_rate, host_rate,
                   rev, master_gain, pc, loc, tx_live, blk, hist>>
    /\ UNCHANGED ringVars
    /\ UNCHANGED sideVars

\* an underrun fill that always pads with silence
UnderrunFill_silence(so, to_copy, needed) ==
    [j \in DOMAIN so |-> IF to_copy <= j /\ j < needed THEN 0 ELSE so[j]]

\* the underrun fill of tud_audio_tx_done_pre_load_cb: so holds to_copy
\* popped samples, positions to_copy .. needed-1 are filled
UnderrunFill(so, to_copy, needed) ==
    IF to_copy >= needed THEN so
    ELSE IF to_copy >= AUDIO_NUM_CHANNELS /\ to_copy > 0
         THEN LET last_frame_start == to_copy - AUDIO_NUM_CHANNELS
              IN  [j \in DOMAIN so |->
                     IF to_copy <= j /\ j < needed
                     THEN so[last_frame_start + ((j - to_copy) % AUDIO_NUM_CHANNELS)]
                     ELSE so[j]]
         ELSE [j \in DOMAIN so |-> IF to_copy <= j /\ j < needed THEN 0 ELSE so[j]]

\* an accumulator that drops the remainder at every tick
frac_step_reset(acc, rate) ==
    [frames |-> (acc + rate) \div USB_SOF_HZ, acc |-> 0]

\* frac_acc += current_sampling_rate; frames = frac_acc / USB_SOF_HZ;
\* frac_acc %= USB_SOF_HZ
frac_step(acc, rate) ==
    [frames |-> (acc + rate) \div USB_SOF_HZ, acc |-> (acc + rate) % USB_SOF_HZ]

\* tud_audio_tx_done_pre_load_cb, all of it
TxTick ==
    LET step == frac_step(frac_acc, current_sampling_rate)
        frames == step.frames
        samples_needed == frames * AUDIO_NUM_CHANNELS
        have == ringbuffer_size(tx_buffer)
        to_copy == Min(have, samples_needed)
        res == ringbuffer_pop(tx_buffer, to_copy)
        so1 == IF to_copy > 0 THEN memcpy_to(scratch_out, 0, res.dst, 0, Len(res.dst))
               ELSE scratch_out
        so2 == UnderrunFill(so1, to_copy, samples_needed)
    IN  /\ frac_acc' = step.acc
        /\ IF samples_needed = 0
           THEN UNCHANGED <<tx_buffer, scratch_out, tx_live>>
           ELSE /\ tx_buffer' = IF to_copy > 0 THEN res.rb ELSE tx_buffer
                /\ tx_live' = IF to_copy > 0 /\ res.ret THEN DropFirst(tx_live, to_copy)
                              ELSE tx_live
                /\ scratch_out' = so2
        /\ UNCHANGED <<rx_buffer, scratch_in, current_sampling_rate, host_rate, rev,
                       master_gain, pc, loc, rx_count, rx_packets, rx_live, blk, hist>>
        /\ UNCHANGED ringVars

\* a transmit tick while streaming
TxCallback ==
    /\ TxTick
    /\ UNCHANGED sideVars

\* the host selects another sampling rate (a control request served by the
\* USB stack); usb_audio_get_config reports it from then on
HostSetRate(r) ==
    /\ r # host_rate
    /\ host_rate' = r
    /\ UNCHANGED <<rx_buffer, tx_buffer, scratch_in, scratch_out, frac_acc,
                   current_sampling_rate, rev, master_gain, pc, loc, rx_count, rx_packets,
                   rx_live, tx_live, blk, hist>>
    /\ UNCHANGED ringVars
    /\ UNCHANGED sideVars

\* streaming at the rate the device starts with
NextPipe ==
    \/ AudioTaskStep
    \/ \E n \in RxSizes, short \in ShortReads : RxCallback(n, short)
    \/ TxCallback

SpecPipe == InitPipe /\ [][NextPipe]_vars

\* the host changes the rate while whole quanta stream in
NextRate ==
    \/ AudioTaskStep
    \/ RxCallback(rx_samples, FALSE)
    \/ TxCallback
    \/ \E r \in HostRates : HostSetRate(r)

SpecRate == InitPipe /\ [][NextRate]_vars

(* ---------------- the transmit clock, no audio streaming in ------------- *)
\* rates the host may select here: the nominal one and rates that are no
\* multiple of the tick frequency, one of them below it
ClockRates == {NominalRate, NominalRate - 82, 2 * NominalRate + 1, 333}

\* a transmit tick, counted: clk restarts its count when the tick runs at
\* another recorded rate than the ticks counted so far
ClockTick ==
    /\ clk.total < MaxTicks
    /\ TxTick
    /\ LET f == frac_step(frac_acc, current_sampling_rate).frames
       IN  clk' = IF clk.ticks > 0 /\ clk.rate = current_sampling_rate
                  THEN [clk EXCEPT !.total = @ + 1, !.ticks = @ + 1, !.frames = @ + f]
                  ELSE [total |-> clk.total + 1, ticks |-> 1, frames |-> f,
                        rate |-> current_sampling_rate, acc0 |-> frac_acc]
    /\ UNCHANGED <<rlast, gran, glast, twin>>

NextClock ==
    \/ T_RateCheck
    \/ \E en \in BOOLEAN : T_EnableCheck(en)
    \/ ClockTick
    \/ \E r \in ClockRates : HostSetRate(r)

SpecClock == InitPipe /\ [][NextClock]_vars

(* ------------------ the reverb, called block after block -------------- *)
\* fx_set_enable(en)
RevSetEnable(en) ==
    /\ rev' = [rev EXCEPT !.enabled = en]
    /\ rlast' = [rlast EXCEPT !.op = "enable", !.enabled = en]
    /\ UNCHANGED <<rx_buffer, tx_buffer, scratch_in, scratch_out, frac_acc,
                   current_sampling_rate, host_rate, master_gain, pc, loc, rx_count,
                   rx_packets, rx_live, tx_live, blk, hist, clk, gran, glast, twin>>
    /\ UNCHANGED ringVars

\* the index of the first frame of out (frames base, base+1, ...) that is
\* not silence, 0 if there is none
FirstSound(out, base) ==
    LET hits == {i \in 0..((Len(out) \div 2) - 1) :
                    base + i >= 1 /\ (out[2 * i + 1] # 0 \/ out[2 * i + 2] # 0)}
    IN  IF hits = {} THEN 0
        ELSE base + (CHOOSE i \in hits : \A j \in hits : i <= j)

\* fx_process(out, in, Len(in) / 2) into a zeroed output block
RevProcess(in) ==
    /\ rlast.n + (Len(in) \div 2) <= MaxFxFrames
    /\ LET res == fx_process(rev, in, [j \in DOMAIN in |-> 0], master_gain)
           follows == IF rlast.n = 0
                      THEN /\ SubSeq(in, 1, 2) = <<FULL_SCALE, FULL_SCALE>>
                           /\ \A j \in 3..Len(in) : in[j] = 0
                      ELSE \A j \in 1..Len(in) : in[j] = 0
       IN  /\ rev' = res.rev
           /\ rlast' = [op |-> "process",
                        n |-> rlast.n + (Len(in) \div 2),
                        impulse |-> rlast.impulse /\ rev.enabled /\ follows,
                        first |-> IF rlast.first # 0 THEN rlast.first
                                  ELSE FirstSound(res.out, rlast.n),
                        enabled |-> rev.enabled, in |-> in, out |-> res.out]
    /\ UNCHANGED <<rx_buffer, tx_buffer, scratch_in, scratch_out, frac_acc,
                   current_sampling_rate, host_rate, master_gain, pc, loc, rx_count,
                   rx_packets, rx_live, tx_live, blk, hist, clk, gran, glast, twin>>
    /\ UNCHANGED ringVars

NextReverb ==
    \/ \E en \in BOOLEAN : RevSetEnable(en)
    \/ \E in \in FxBlocks : RevProcess(in)

SpecReverb == InitPipe /\ [][NextReverb]_vars

(* ------------- the reverb fed an impulse and silence for ever ---------- *)
\* fx_process(out, in, 1) on one frame; the frame count of the history stops
\* at MaxFxFrames, so that a run that goes on for ever has finitely many
\* states
TailFrame(in) ==
    /\ LET res == fx_process(rev, in, <<0, 0>>, master_gain)
       IN  /\ rev' = res.rev
           /\ rlast' = [op |-> "process",
                        n |-> Min(rlast.n + 1, MaxFxFrames),
                        impulse |-> rlast.impulse /\ rev.enabled,
                        first |-> IF rlast.first # 0 THEN rlast.first
                                  ELSE FirstSound(res.out, rlast.n),
                        enabled |-> rev.enabled, in |-> in, out |-> res.out]
    /\ UNCHANGED <<rx_buffer, tx_buffer, scratch_in, scratch_out, frac_acc,
                   current_sampling_rate, host_rate, master_gain, pc, loc, rx_count,
                   rx_packets, rx_live, tx_live, blk, hist, clk, gran, glast, twin>>
    /\ UNCHANGED ringVars

\* frame 0: full scale on both channels
TailImpulse == rlast.n = 0 /\ TailFrame(<<FULL_SCALE, FULL_SCALE>>)
\* every later frame: silence
TailSilence == rlast.n > 0 /\ TailFrame(<<0, 0>>)

NextTail == TailImpulse \/ TailSilence

\* the main loop never stops calling audio_task, and the host keeps
\* streaming: frames are processed again and again.  NextTail is enabled in
\* every state, so this is weak fairness of NextTail written out.
SpecTail == InitPipe /\ [][NextTail]_vars /\ []<><<NextTail>>_vars

(* ------------------- two runs of the reverb side by side --------------- *)
\* frames whose channels are silent or at full scale
PairFrames == {<<l, r>> : l \in {0, FULL_SCALE}, r \in {0, FULL_SCALE}}

\* the first run processes frame fa and the second run frame fb, as long as
\* the two runs still agree on the input of some channel
PairProcess(fa, fb) ==
    /\ rlast.n < MaxFxFrames
    /\ (twin.sameL /\ fa[1] = fb[1]) \/ (twin.sameR /\ fa[2] = fb[2])
    /\ LET ra == fx_process(rev, fa, <<0, 0>>, master_gain)
           rb2 == fx_process(twin.rev, fb, <<0, 0>>, master_gain)
       IN  /\ rev' = ra.rev
           /\ twin' = [rev |-> rb2.rev,
                       sameL |-> twin.sameL /\ fa[1] = fb[1],
                       sameR |-> twin.sameR /\ fa[2] = fb[2],
                       out |-> rb2.out]
           /\ rlast' = [rlast EXCEPT !.op = "process", !.n = rlast.n + 1,
                                     !.impulse = FALSE, !.in = fa, !.out = ra.out]
    /\ UNCHANGED <<rx_buffer, tx_buffer, scratch_in, scratch_out, frac_acc,
                   current_sampling_rate, host_rate, master_gain, pc, loc, rx_count,
                   rx_packets, rx_live, tx_live, blk, hist, clk, gran, glast>>
    /\ UNCHANGED ringVars

NextPair == \E fa \in PairFrames, fb \in PairFrames : PairProcess(fa, fb)

SpecPair == InitPipe /\ [][NextPair]_vars

(* --------------- the granular effect, called block after block --------- *)
\* the variables of main.c and of the reverb
mainVars == <<rx_buffer, tx_buffer, scratch_in, scratch_out, frac_acc,
              current_sampling_rate, host_rate, rev, master_gain, pc, loc, rx_count,
              rx_packets, rx_live, tx_live, blk, hist, clk, rlast, twin>>

\* fx_set_enable(en)
GranSetEnable(en) ==
    /\ gran.fault = "none"
    /\ gran' = gr_fx_set_enable(gran, en)
    /\ glast' = [glast EXCEPT !.op = "enable",
                              !.snap = IF en /\ ~gran.freeze_enabled THEN gran.buffer
                                       ELSE glast.snap]
    /\ UNCHANGED mainVars
    /\ UNCHANGED ringVars

\* fx_set_param(id, val)
GranSetParam(id, val) ==
    /\ gran.fault = "none"
    /\ glast.params < MaxParamCalls
    /\ gran' = gr_fx_set_param(gran, id, val)
    /\ glast' = [glast EXCEPT !.op = "param", !.id = id,
                              !.params = glast.params + 1,
                              !.lenfixed = /\ glast.lenfixed
                                           /\ \/ glast.frames = 0
                                              \/ gran'.grain_length = gran.grain_length]
    /\ UNCHANGED mainVars
    /\ UNCHANGED ringVars

\* fx_process(out, in, Len(in) / 2) into a zeroed output block
GranProcess(in, inp) ==
    /\ gran.fault = "none"
    /\ glast.frames + (Len(in) \div 2) <= MaxGranFrames
    /\ LET res == gr_fx_process(gran, in, [j \in DOMAIN in |-> 0], inp)
       IN  /\ gran' = res.g
           /\ glast' = [glast EXCEPT !.op = "process",
                                     !.frames = glast.frames + (Len(in) \div 2),
                                     !.frozen = gran.freeze_enabled,
                                     !.in = in, !.out = res.out, !.wet = res.wet,
                                     !.reads = res.reads]
    /\ UNCHANGED mainVars
    /\ UNCHANGED ringVars

\* the fx_set_param calls made: for the mixes the ends of int16_t; for the
\* grain length values giving a negative length, length 0, one cell less
\* than the capture buffer, exactly the capture buffer, and more; for the
\* density values giving -15, 3, 9 and 16; and two IDs the effect does not
\* know
ParamCalls ==
    {[id |-> FX_PARAM_WET_MIX, val |-> 32767], [id |-> FX_PARAM_WET_MIX, val |-> -32768],
     [id |-> FX_PARAM_DRY_MIX, val |-> 32767], [id |-> FX_PARAM_DRY_MIX, val |-> -32768],
     [id |-> FX_PARAM_GRAIN_LENGTH, val |-> -32768],
     [id |-> FX_PARAM_GRAIN_LENGTH, val |-> -512],
     [id |-> FX_PARAM_GRAIN_LENGTH, val |-> 2 * (BUFFER_SIZE - 256) - 2],
     [id |-> FX_PARAM_GRAIN_LENGTH, val |-> 2 * (BUFFER_SIZE - 256)],
     [id |-> FX_PARAM_GRAIN_LENGTH, val |-> 32767],
     [id |-> FX_PARAM_GRAIN_DENSITY, val |-> -32768],
     [id |-> FX_PARAM_GRAIN_DENSITY, val |-> 4096],
     [id |-> FX_PARAM_GRAIN_DENSITY, val |-> 16384],
     [id |-> FX_PARAM_GRAIN_DENSITY, val |-> 32767],
     [id |-> 4, val |-> 32767], [id |-> 255, val |-> -32768]}
\* blocks handed to fx_process: silence, a frame at the negative end with
\* padding bits, and a full-scale frame followed by silence
GranBlocks == {<<0, 0>>, <<(-32768) * 65536 + 65535, (-32768) * 65536>>,
               <<FULL_SCALE, FULL_SCALE, 0, 0>>}
\* what a call gets from outside: the values of rand() (RAND_MAX is 32767
\* or more) and the build's
\* treatment of undefined operations
GranInputs ==
    {[rand |-> [j \in 0..(NUM_GRAINS - 1) |-> 0], div0_traps |-> TRUE, ub_env |-> -1],
     [rand |-> [j \in 0..(NUM_GRAINS - 1) |-> 32767 - j], div0_traps |-> FALSE,
      ub_env |-> 32767]}

NextGran ==
    \/ \E en \in BOOLEAN : GranSetEnable(en)
    \/ \E c \in ParamCalls : GranSetParam(c.id, c.val)
    \/ \E in \in GranBlocks, inp \in GranInputs : GranProcess(in, inp)

SpecGran == InitPipe /\ [][NextGran]_vars

(* ------------------- an effect initialised once more ------------------- *)
\* fx_init() of the reverb: init_filters() allocates fresh zeroed delay
\* lines (the allocation is taken to succeed) and leaves the static
\* pre-delay arrays as they are
RevInit ==
    /\ rev' = init_filters(rev.predL, rev.predR)
    /\ rlast' = [rlast EXCEPT !.op = "fx_init", !.enabled = TRUE, !.impulse = FALSE]
    /\ UNCHANGED <<rx_buffer, tx_buffer, scratch_in, scratch_out, frac_acc,
                   current_sampling_rate, host_rate, master_gain, pc, loc, rx_count,
                   rx_packets, rx_live, tx_live, blk, hist, clk, gran, glast, twin>>
    /\ UNCHANGED ringVars

\* fx_init() of the granular effect
GranInit ==
    /\ gran.fault = "none"
    /\ gran' = gr_fx_init(gran)
    /\ glast' = [glast EXCEPT !.op = "fx_init"]
    /\ UNCHANGED mainVars
    /\ UNCHANGED ringVars

\* a firmware image links one of the two effects: the calls of the reverb
\* are made while the granular effect has never been called, and the other
\* way round
NextReinit ==
    \/ /\ gran = gran_0 /\ glast = glast_0
       /\ \/ RevInit
          \/ \E en \in BOOLEAN : RevSetEnable(en)
          \/ \E in \in FxBlocks : RevProcess(in)
    \/ /\ rlast = rlast_0
       /\ \/ GranInit
          \/ \E en \in BOOLEAN : GranSetEnable(en)
          \/ \E c \in ParamCalls : GranSetParam(c.id, c.val)
          \/ \E in \in GranBlocks, inp \in GranInputs : GranProcess(in, inp)

SpecReinit == InitPipe /\ [][NextReinit]_vars

(* ------------------- one ring, calls made one at a time ---------------- *)
\* the samples handed to the successful pushes so far, in order: the ring's
\* caller pushes the host stream, block after block
rb_in == HostBlock(0, pushed)

InitRing ==
    /\ rb = ringbuffer_0
    /\ pushed = 0
    /\ rb_out = <<>>
    /\ last = NoCall
    /\ PipeConstructed

\* ringbuffer_push(&rb, src, n) with the next n samples of the host stream
Push(n) ==
    /\ pushed + n <= MaxPushed
    /\ LET src == HostBlock(pushed, n)
           res == ringbuffer_push(rb, src, n)
       IN  /\ rb' = res.rb
           /\ pushed' = IF res.ret THEN pushed + n ELSE pushed
           /\ rb_out' = rb_out
           /\ last' = [op |-> "push", n |-> n, ret |-> res.ret,
                       r0 |-> rb.read, w0 |-> rb.write, rt |-> FALSE]
    /\ UNCHANGED pipeVars
    /\ UNCHANGED sideVars

\* ringbuffer_pop(&rb, dst, n); rt records that this pop follows a
\* successful push of the same n samples onto an empty ring
Pop(n) ==
    /\ UNCHANGED pipeVars
    /\ UNCHANGED sideVars
    /\ LET res == ringbuffer_pop(rb, n)
       IN
        /\ rb' = res.rb
        /\ pushed' = pushed
        /\ rb_out' = rb_out \o res.dst
        /\ last' = [op |-> "pop", n |-> n, ret |-> res.ret,
                    r0 |-> rb.read, w0 |-> rb.write,
                    rt |-> (last.op = "push" /\ last.ret /\ last.n = n
                            /\ last.r0 = last.w0)]

CallSizes == 0..(RINGBUF_CAPACITY + 1)

NextRing ==
    \/ \E n \in CallSizes : Push(n)
    \/ \E n \in CallSizes : Pop(n)

SpecRing == InitRing /\ [][NextRing]_vars

(* ======================= claims about one ring ========================= *)
N == RINGBUF_CAPACITY

\* the cells holding live samples, from the indices alone
LiveCells(b) == {(b.read + j) % N : j \in 0..(((b.write - b.read) % N) - 1)}

\* C1: ringbuffer_push is all-or-nothing.  A call with n = 0 or
\* n > (N-1) - size returns false and leaves read, write and every cell as
\* they were; any other call returns true, stores the n samples in the cells
\* write .. write+n-1 (mod N), none of them live, touches no other cell,
\* keeps read and advances write by n (mod N).
C1_PushAllOrNothing ==
    [][last'.op = "push" =>
        LET n == last'.n
            free == (N - 1) - ((rb.write - rb.read) % N)
        IN  IF n = 0 \/ n > free
            THEN /\ last'.ret = FALSE
                 /\ rb' = rb
            ELSE /\ last'.ret = TRUE
                 /\ rb'.read = rb.read
                 /\ rb'.write = (rb.write + n) % N
                 /\ \A k \in 0..(n - 1) :
                        /\ (rb.write + k) % N \notin LiveCells(rb)
                        /\ rb'.buffer[(rb.write + k) % N] = HostSample(pushed + k + 1)
                 /\ \A c \in DOMAIN rb.buffer :
                        c \notin {(rb.write + k) % N : k \in 0..(n - 1)}
                            => rb'.buffer[c] = rb.buffer[c]]_vars

\* a push of at least one sample was rejected while the live region
\* straddles the end of the array
C1_Witness ==
    /\ last.op = "push" /\ ~last.ret /\ last.n >= 1 /\ last.n < N
    /\ rb.write < rb.read

\* C2: ringbuffer_pop is all-or-nothing.  A call with n = 0 or n > size
\* returns false, leaves read, write and the cells as they were and copies
\* nothing; any other call returns true, copies the n oldest samples
\* starting at read (wrapping at N), keeps write and the cells and advances
\* read by n (mod N).
C2_PopAllOrNothing ==
    [][last'.op = "pop" =>
        LET n == last'.n
            size == (rb.write - rb.read) % N
        IN  IF n = 0 \/ n > size
            THEN /\ last'.ret = FALSE
                 /\ rb' = rb
                 /\ rb_out' = rb_out
            ELSE /\ last'.ret = TRUE
                 /\ rb'.write = rb.write
                 /\ rb'.buffer = rb.buffer
                 /\ rb'.read = (rb.read + n) % N
                 /\ rb_out' = rb_out \o [k \in 1..n |-> rb.buffer[(rb.read + k - 1) % N]]]_vars

\* a successful pop that crossed the end of the array
C2_Witness ==
    /\ last.op = "pop" /\ last.ret
    /\ last.r0 + last.n > N

\* C3: FIFO.  The samples returned by the successful pops, concatenated, are
\* a prefix of the samples given to the successful pushes, concatenated, and
\* the rest of the pushed samples is exactly what the ring still holds.
C3_Fifo ==
    /\ Len(rb_out) <= pushed
    /\ \A i \in 1..Len(rb_out) : rb_out[i] = rb_in[i]
    /\ \A j \in 1..(pushed - Len(rb_out)) :
           rb.buffer[(rb.read + j - 1) % N] = rb_in[Len(rb_out) + j]

\* more than a whole lap of samples has been popped and more are waiting
\* across the wrap-around point
C3_Witness ==
    /\ Len(rb_out) > N
    /\ pushed > Len(rb_out)
    /\ rb.write < rb.read

\* C4: both indices stay in 0..N-1, ringbuffer_size is (write - read) mod N,
\* ringbuffer_capacity is (N-1) - size, the number of live samples (pushed
\* and not yet popped) is that size and never exceeds N-1, and read = write
\* only when nothing is live.
C4_IndexInvariant ==
    /\ rb.read \in 0..(N - 1)
    /\ rb.write \in 0..(N - 1)
    /\ ringbuffer_size(rb) = (rb.write - rb.read) % N
    /\ ringbuffer_capacity(rb) = (N - 1) - ((rb.write - rb.read) % N)
    /\ pushed - Len(rb_out) = (rb.write - rb.read) % N
    /\ pushed - Len(rb_out) <= N - 1
    /\ (rb.read = rb.write) => (pushed = Len(rb_out))

\* the ring is full, with the write index wrapped behind the read index
C4_Witness ==
    /\ pushed - Len(rb_out) = N - 1
    /\ rb.write < rb.read

\* C5: round trip.  On an empty ring at any position a push of n samples,
\* 1 <= n <= N-1, succeeds; a pop of n right after it succeeds, returns the
\* samples just pushed and leaves the ring empty with read = write.
C5_RoundTrip ==
    /\ (last.op = "push" /\ last.r0 = last.w0 /\ last.n \in 1..(N - 1)) => last.ret
    /\ (last.op = "pop" /\ last.rt) =>
          /\ last.ret
          /\ Len(rb_out) >= last.n
          /\ \A k \in 1..last.n :
                rb_out[Len(rb_out) - last.n + k] = HostSample(pushed - last.n + k)
          /\ ringbuffer_size(rb) = 0
          /\ rb.read = rb.write

\* a round trip of the largest block, started at the last cell of the array
C5_Witness ==
    /\ last.op = "pop" /\ last.rt /\ last.ret
    /\ last.n = N - 1
    /\ last.r0 = N - 1

(* ===================== claims about the pipeline ======================= *)
\* the samples a ring holds between read and write, oldest first
LiveContents(b) ==
    [j \in 1..((b.write - b.read) % N) |-> b.buffer[(b.read + j - 1) % N]]

RxCallbackRuns == \E n \in RxSizes, short \in BOOLEAN : RxCallback(n, short)

\* C6: single producer, single consumer under preemption.  Whatever callback
\* runs between two steps of audio_task: each ring holds, between read and
\* write, exactly the samples pushed and not yet popped, in order (no live
\* cell is overwritten, no unwritten cell is published); a push writes only
\* free cells and moves write only once all n cells are written; a pop
\* changes nothing but read, and only once all n cells are copied out; and
\* every pop delivers the oldest pushed samples in the order they were pushed.
C6_SpscOrdering ==
    /\ [](/\ LiveContents(rx_buffer) = rx_live
          /\ LiveContents(tx_buffer) = tx_live)
    /\ [][/\ (pc = "pop_copy" /\ loc' # loc) =>
                /\ CellOf(loc.idx0, loc.k, rx_samples) \in LiveCells(rx_buffer)
                /\ scratch_in'[loc.k] = blk[loc.k + 1]
                /\ rx_buffer' = rx_buffer
          /\ (pc = "pop_pub" /\ pc' # pc) =>
                /\ loc.k = rx_samples
                /\ rx_buffer'.buffer = rx_buffer.buffer
                /\ rx_buffer'.write = rx_buffer.write
                /\ rx_buffer'.read = (rx_buffer.read + rx_samples) % N
          /\ RxCallbackRuns =>
                /\ rx_buffer'.read = rx_buffer.read
                /\ \A c \in LiveCells(rx_buffer) : rx_buffer'.buffer[c] = rx_buffer.buffer[c]
          /\ (pc = "push_copy" /\ loc' # loc) =>
                /\ CellOf(loc.idx0, loc.k, rx_samples) \notin LiveCells(tx_buffer)
                /\ tx_buffer'.write = tx_buffer.write
                /\ tx_buffer'.read = tx_buffer.read
          /\ (pc = "push_pub" /\ pc' # pc) =>
                /\ loc.k = rx_samples
                /\ tx_buffer'.buffer = tx_buffer.buffer
                /\ tx_buffer'.read = tx_buffer.read
          /\ TxCallback =>
                /\ tx_buffer'.write = tx_buffer.write
                /\ tx_buffer'.buffer = tx_buffer.buffer
                /\ LET popped == Len(tx_live) - Len(tx_live')
                   IN  \A j \in 1..popped : scratch_out'[j - 1] = tx_live[j]
         ]_vars

\* the receive callback ran while a pop by audio_task was under way: the
\* cells are copied, read is not yet advanced, and scratch_in no longer
\* holds the copied block
C6_Witness ==
    /\ pc = "pop_pub"
    /\ Block(scratch_in, rx_samples) # blk
    /\ Len(rx_live) > rx_samples

\* C7: the callbacks share nothing with audio_task but the two rings: a
\* receive or transmit callback that runs between the task's pop, fx_process
\* and push leaves the block being processed (scratch_in) and the block
\* about to be pushed (scratch_out) as they were.
C7_OnlyRingsShared ==
    [][(RxCallbackRuns \/ TxCallback) =>
          /\ (pc \in {"pop_copy", "pop_pub", "fx"}) =>
                Block(scratch_in', rx_samples) = Block(scratch_in, rx_samples)
          /\ (pc \in {"fx", "push", "push_copy"}) =>
                Block(scratch_out', rx_samples) = Block(scratch_out, rx_samples)]_vars

\* C8: an invocation of audio_task that found a quantum in the input ring
\* (rate unchanged) never loses it: the push of the processed block into the
\* output ring is accepted, and when it completes the output ring has gained
\* exactly one quantum.
C8_QuantumDelivered ==
    /\ [](hist.outcome # "dropped")
    /\ [][(pc = "push_pub" /\ pc' # pc) =>
            ringbuffer_size(tx_buffer') = ringbuffer_size(tx_buffer) + rx_samples]_vars

\* C9: when audio_task finds fewer than rx_samples samples in the input
\* ring it returns at once: no pop, no fx_process, no push; both rings, both
\* scratch blocks and the reverb's delay lines, cursors and filter memories
\* stay as they are.
C9_NoPartialProcessing ==
    [][(pc = "enable" /\ pc' # pc /\ ringbuffer_size(rx_buffer) < rx_samples) =>
          /\ pc' = "idle"
          /\ rx_buffer' = rx_buffer
          /\ tx_buffer' = tx_buffer
          /\ scratch_in' = scratch_in
          /\ scratch_out' = scratch_out
          /\ [rev' EXCEPT !.enabled = TRUE] = [rev EXCEPT !.enabled = TRUE]]_vars

\* an invocation returned without processing although the input ring held a
\* sample, after the reverb had already processed audio
C9_Witness ==
    /\ pc = "idle"
    /\ hist.outcome = "no_quantum"
    /\ ringbuffer_size(rx_buffer) > 0
    /\ ringbuffer_size(rx_buffer) < rx_samples
    /\ rev.L[0].buf # ZeroBuf(COMB_DLY_L[0])

\* C10: when audio_task finds the host rate different from the recorded
\* rate it records the host rate and returns without touching the rings; an
\* invocation that follows a skipped one with the host rate unchanged finds
\* the rates equal and goes on to process.
C10_RateChangeSkipsOnce ==
    [][T_RateCheck =>
          /\ (host_rate # current_sampling_rate) =>
                /\ current_sampling_rate' = host_rate
                /\ pc' = "idle"
          /\ (hist.outcome = "skipped" /\ hist.rate = host_rate) => pc' = "enable"]_vars

(* ==================== claims about the transmit side =================== *)
\* C11: the accumulator stays in 0..999; every transmit tick delivers the
\* quotient of (accumulator + recorded rate) by 1000 and keeps the remainder;
\* after T ticks at one recorded rate R that started from a zero accumulator
\* the frames delivered add up to at most T*R/1000 and to more than
\* T*R/1000 - 1.
C11_ClockReconciliation ==
    /\ [](frac_acc \in 0..(USB_SOF_HZ - 1))
    /\ []((clk.ticks > 0 /\ clk.acc0 = 0) =>
            /\ clk.frames * USB_SOF_HZ <= clk.ticks * clk.rate
            /\ clk.ticks * clk.rate - clk.frames * USB_SOF_HZ < USB_SOF_HZ)
    /\ [][ClockTick =>
            LET f == IF clk'.ticks = 1 THEN clk'.frames ELSE clk'.frames - clk.frames
            IN  /\ f \in Nat
                /\ f * USB_SOF_HZ + frac_acc' = frac_acc + current_sampling_rate]_vars

\* three ticks or more at one rate from a zero accumulator, a remainder is
\* being carried and frames have been delivered
C11_Witness ==
    /\ clk.ticks >= 3
    /\ clk.acc0 = 0
    /\ frac_acc # 0
    /\ clk.frames > 0
    /\ clk.frames * USB_SOF_HZ < clk.ticks * clk.rate

\* C12: a transmit tick that needs S > 0 samples leaves the packet in
\* scratch_out[0 .. S-1]; it takes min(have, S) samples out of the output
\* ring and they are the oldest ones, in order, at the start of the packet;
\* with 0 < have < S the rest of the packet repeats the last frame taken
\* from the ring, left and right in place; with an empty ring the packet is
\* all zero.
C12_UnderrunFill ==
    [][TxCallback =>
        LET S == ((frac_acc + current_sampling_rate) \div USB_SOF_HZ) * AUDIO_NUM_CHANNELS
            have == ringbuffer_size(tx_buffer)
            m == Min(have, S)
            pkt == Block(scratch_out', S)
        IN  S > 0 =>
              /\ ringbuffer_size(tx_buffer') = have - m
              /\ tx_buffer'.write = tx_buffer.write
              /\ SubSeq(pkt, 1, m) = SubSeq(LiveContents(tx_buffer), 1, m)
              /\ (0 < have /\ have < S) =>
                    \A j \in (m + 1)..S :
                        pkt[j] = pkt[m - AUDIO_NUM_CHANNELS + 1
                                     + ((j - m - 1) % AUDIO_NUM_CHANNELS)]
              /\ (have = 0) => \A j \in 1..S : pkt[j] = 0]_vars

\* a tick at twice the nominal rate found one quantum in the ring: the
\* second half of the packet repeats the quantum's last frame
C12_Witness ==
    /\ current_sampling_rate = 2 * NominalRate
    /\ frac_acc = 0
    /\ ringbuffer_size(tx_buffer) = 0
    /\ scratch_out[rx_samples - 1] # 0
    /\ \A j \in rx_samples..(2 * rx_samples - 1) :
          scratch_out[j] = scratch_out[rx_samples - AUDIO_NUM_CHANNELS
                                       + ((j - rx_samples) % AUDIO_NUM_CHANNELS)]

(* ======================== claims about the reverb ====================== *)
\* C13: a block processed while the reverb is disabled comes out as it went
\* in, container for container, padding bits included, whatever the reverb
\* had processed before.
C13_ReverbBypass ==
    (rlast.op = "process" /\ ~rlast.enabled) => rlast.out = rlast.in

\* a block with padding bits went through the disabled reverb after the
\* reverb had processed sound
C13_Witness ==
    /\ rlast.op = "process"
    /\ ~rlast.enabled
    /\ rlast.in[1] % 65536 # 0
    /\ rlast.first # 0

\* the shortest comb delay of either channel
MinCombDelay ==
    LET all == {COMB_DLY_L[k] : k \in 0..(NUM_COMB - 1)}
                 \cup {COMB_DLY_R[k] : k \in 0..(NUM_COMB - 1)}
    IN  CHOOSE d \in all : \A e \in all : d <= e

\* C20: the enabled, freshly initialised reverb is fed a full-scale frame and
\* silence after it.  Once the pre-delay and the shortest comb delay have
\* gone by, some frame after frame 0 has come out non-silent, hence different
\* from its input, and the first such frame is not earlier than the
\* pre-delay.
C20_ImpulseTail ==
    (rlast.impulse /\ rlast.n > PREDELAY_SAMPLES + MinCombDelay) =>
        /\ rlast.first >= 1
        /\ rlast.first >= PREDELAY_SAMPLES
        /\ rlast.first <= PREDELAY_SAMPLES + MinCombDelay

\* the impulse and enough silence have been processed
C20_Witness ==
    /\ rlast.impulse
    /\ rlast.n > PREDELAY_SAMPLES + MinCombDelay
    /\ rlast.op = "process"
    /\ rlast.first >= 1

(* =================== claims about the granular effect ================== *)
\* the Q15 part of a container
Q15Of(c) == c \div 65536

\* C14: while the granular effect is disabled (fx_set_enable(false)), a
\* processed block comes out as it went in.
C14_GranularBypass ==
    (glast.op = "process" /\ ~glast.frozen /\ gran.fault = "none") => glast.out = glast.in

\* a fx_process call
GranProcessRuns == \E in \in GranBlocks, inp \in GranInputs : GranProcess(in, inp)

\* C15: a fx_process call made while freeze is on leaves the capture buffer
\* and the write cursor as they were, and every buffer value its grains read
\* is the value the cell held when freeze was switched on; a call made while
\* freeze is off moves the write cursor by one cell (mod capacity) per
\* processed frame.
C15_FreezeHoldsCapture ==
    /\ [][GranProcessRuns =>
            /\ gran.freeze_enabled =>
                  /\ gran'.buffer = gran.buffer
                  /\ gran'.write_pos = gran.write_pos
            /\ (~gran.freeze_enabled /\ gran'.fault = "none") =>
                  gran'.write_pos =
                      (gran.write_pos + (Len(glast'.in) \div 2)) % BUFFER_SIZE]_vars
    /\ []((glast.op = "process" /\ glast.frozen) =>
            \A rd \in glast.reads : glast.snap[rd.pos] = rd.val)

\* freeze was switched on after sound had been captured, and a grain then
\* read a cell holding that sound
C15_Witness ==
    /\ glast.op = "process"
    /\ glast.frozen
    /\ gran.freeze_enabled
    /\ \E rd \in glast.reads : rd.val # 0

\* C16: the grain density is between 1 and the pool size, so the grain loop
\* stays inside the pool.
C16_DensityInPool ==
    /\ gran.grain_density \in 1..NUM_GRAINS
    /\ gran.fault # "oob"

\* the parameter IDs the granular effect knows
KnownParamIds == {FX_PARAM_WET_MIX, FX_PARAM_DRY_MIX, FX_PARAM_GRAIN_LENGTH,
                  FX_PARAM_GRAIN_DENSITY}

\* C17: a fx_set_param call with an ID the effect does not know leaves the
\* whole effect state as it was: mix levels, grain length, grain density,
\* freeze flag, capture buffer, write cursor and grains.
C17_UnknownParamIgnored ==
    [][(glast'.params # glast.params /\ glast'.id \notin KnownParamIds) =>
          gran' = gran]_vars

\* an unknown ID was passed after the effect had processed audio
C17_Witness ==
    /\ glast.op = "param"
    /\ glast.id \notin KnownParamIds
    /\ glast.frames > 0
    /\ gran.buffer # ZeroBuf(BUFFER_SIZE)

\* C18: every container the granular effect emits holds the Q15 value
\* dry*dry_mix + wet*wet_mix (each product shifted down by 15) clamped to
\* -32768 .. 32767.
C18_MixSaturates ==
    (glast.op = "process" /\ gran.fault = "none") =>
        \A i \in 0..((Len(glast.in) \div 2) - 1) : \A ch \in 1..2 :
            LET dry == Q15Of(glast.in[2 * i + ch])
                wet == glast.wet[i + 1]
            IN  /\ Q15Of(glast.out[2 * i + ch]) \in -32768..32767
                /\ Q15Of(glast.out[2 * i + ch]) =
                      sat16(((dry * gran.dry_mix) \div 32768)
                            + ((wet * gran.wet_mix) \div 32768))

\* C19: no fx_process call faults: the grain length is positive and below
\* the capture capacity, so the start-offset window is never zero, and every
\* read and write index is inside the capture buffer.
C19_ProcessTotal ==
    /\ gran.fault = "none"
    /\ gran.grain_length > 0
    /\ gran.grain_length < BUFFER_SIZE
    /\ gran.write_pos \in 0..(BUFFER_SIZE - 1)
    /\ \A j \in 0..(NUM_GRAINS - 1) : gran.grains[j].pos \in 0..(BUFFER_SIZE - 1)

(* ==================== claims about the reverb's tail =================== *)
\* the largest magnitude among the Q15 values of the containers of samples
Peak(samples) ==
    LET mags == {IF Q15Of(samples[j]) < 0 THEN -Q15Of(samples[j]) ELSE Q15Of(samples[j]) :
                    j \in DOMAIN samples} \cup {0}
    IN  CHOOSE m \in mags : \A o \in mags : o <= m

\* every comb delay line and comb low-pass memory of rv holds at most lim in
\* magnitude
CombsWithin(rv, lim) ==
    \A k \in 0..(NUM_COMB - 1) :
        /\ rv.L[k].filt \in (-lim)..lim /\ rv.R[k].filt \in (-lim)..lim
        /\ \A i \in DOMAIN rv.L[k].buf : rv.L[k].buf[i] \in (-lim)..lim
        /\ \A i \in DOMAIN rv.R[k].buf : rv.R[k].buf[i] \in (-lim)..lim

\* C21: the enabled reverb is fed a full-scale frame and then silence for
\* ever.  From some frame on every output container is, and stays, within 2
\* Q15 units of zero; the combs run empty.
C21_TailDecays ==
    <>[](rlast.op = "process" /\ Peak(rlast.out) <= 2 /\ CombsWithin(rev, 0))

\* sound came out after the impulse, and the output has become quiet
C21_Witness ==
    /\ rlast.op = "process"
    /\ rlast.impulse
    /\ rlast.first >= 1
    /\ rlast.n = MaxFxFrames
    /\ Peak(rlast.out) <= 2
    /\ CombsWithin(rev, 0)

(* ============== claims about the reverb and the sample rate ============ *)
\* C22: once audio_task has recorded a new host rate R, every comb, allpass
\* and pre-delay length of the reverb is its table length scaled by R over
\* the nominal rate.
C22_DelaysFollowRate ==
    (hist.outcome = "skipped") =>
        LET scaled(len) == (len * hist.rate) \div NominalRate
        IN  /\ \A k \in 0..(NUM_COMB - 1) :
                  /\ rev.L[k].size = scaled(COMB_DLY_L[k])
                  /\ rev.R[k].size = scaled(COMB_DLY_R[k])
            /\ \A k \in 0..(NUM_AP - 1) :
                  /\ rev.AL[k].size = scaled(AP_DLY_L[k])
                  /\ rev.AR[k].size = scaled(AP_DLY_R[k])
            /\ Cardinality(DOMAIN rev.predL) = scaled(PREDELAY_SAMPLES)
            /\ Cardinality(DOMAIN rev.predR) = scaled(PREDELAY_SAMPLES)

\* some fx_process call of the reverb
RevProcessRuns == \E in \in FxBlocks : RevProcess(in)

\* C23: a block processed while the reverb is disabled leaves the pre-delay,
\* the combs and the allpasses as the same block processed enabled would
\* leave them; only the output differs.
C23_DisabledStillAdvances ==
    [][(RevProcessRuns /\ ~rev.enabled) =>
          rev' = [fx_loop([rev EXCEPT !.enabled = TRUE], rlast'.in, rlast'.in, 0,
                          master_gain).rev EXCEPT !.enabled = FALSE]]_vars

\* the wet values the allpass chains hand to the mix for the next frame
\* processed by rv
fx_wet(rv) ==
    [L |-> ap_chain(rv.AL, sat16(comb_sum(rv.L, rv.predL[rv.pred_idx], 0)), 0).ret,
     R |-> ap_chain(rv.AR, sat16(comb_sum(rv.R, rv.predR[rv.pred_idx], 0)), 0).ret]

\* C25: whatever frame the enabled reverb processes next, each emitted Q15
\* value is the saturated dry/wet mix (DRY = WET = 0.50) times a master gain
\* of 1.50 (49151 in Q15), saturated; with no wet signal a positive dry
\* input comes out positive and at more than half its level.
C25_DefaultMix ==
    rev.enabled =>
        \A f \in FxFrames :
            LET r == fx_frame(rev, f[1], f[2], master_gain)
                w == fx_wet(rev)
                mixed(d, wv) == sat16(mul_q15(d, DRY_Q15) + mul_q15(wv, WET_Q15))
                expected(d, wv) == sat16((mixed(d, wv) * 49151) \div 32768)
            IN  /\ Q15Of(r.outL) = expected(to_q15(f[1]), w.L)
                /\ Q15Of(r.outR) = expected(to_q15(f[2]), w.R)
                /\ (w.L = 0 /\ to_q15(f[1]) > 0) =>
                       (Q15Of(r.outL) > 0 /\ 2 * Q15Of(r.outL) > to_q15(f[1]))

(* ================ claims about the reverb's two channels =============== *)
\* C28: two runs of the enabled reverb from the same initial state.  As long
\* as their left inputs have been the same, their left outputs and their
\* left pre-delay, comb and allpass state are the same, whatever their right
\* inputs were; likewise for the right channel.  The pre-delay cursor is the
\* same in both runs whatever the audio.
C28_NoCrossChannel ==
    /\ rev.pred_idx = twin.rev.pred_idx
    /\ (rlast.op = "process" /\ twin.sameL) =>
          /\ rlast.out[1] = twin.out[1]
          /\ rev.predL = twin.rev.predL /\ rev.L = twin.rev.L /\ rev.AL = twin.rev.AL
    /\ (rlast.op = "process" /\ twin.sameR) =>
          /\ rlast.out[2] = twin.out[2]
          /\ rev.predR = twin.rev.predR /\ rev.R = twin.rev.R /\ rev.AR = twin.rev.AR

\* the two runs had the same left input and different right inputs; their
\* right outputs differ and their left output carries reverberated sound
C28_Witness ==
    /\ rlast.op = "process"
    /\ rlast.n = MaxFxFrames
    /\ twin.sameL /\ ~twin.sameR
    /\ rlast.out[2] # twin.out[2]
    /\ rev.R # twin.rev.R
    /\ rlast.in[1] = 0 /\ rlast.out[1] # 0

(* ======================= claims about fx_init ========================== *)
\* C26: right after an fx_init call that follows any calls, the reverb is
\* in the state of a fresh device (pre-delay, comb and allpass lines zero,
\* cursors and filter memories zero), and the granular effect has a zero
\* capture buffer, write cursor 0 and every grain idle with elapsed count 0.
C26_InitResetsAll ==
    /\ rlast.op = "fx_init" =>
          rev = init_filters(ZeroBuf(PREDELAY_SAMPLES), ZeroBuf(PREDELAY_SAMPLES))
    /\ glast.op = "fx_init" =>
          /\ gran.buffer = ZeroBuf(BUFFER_SIZE)
          /\ gran.write_pos = 0
          /\ \A j \in 0..(NUM_GRAINS - 1) :
                ~gran.grains[j].active /\ gran.grains[j].counter = 0

(* ================ claims about the life of the grains ================== *)
\* what the spec says a slot inside the density does in one processed
\* sample with grain length len: an active grain counts one up and goes
\* idle when the count reaches len; an idle slot becomes active with count 0
RECURSIVE LifeAfter(_, _, _)
LifeAfter(gr, len, n) ==
    IF n = 0 THEN [counter |-> gr.counter, active |-> gr.active]
    ELSE LifeAfter(IF gr.active
                   THEN [counter |-> gr.counter + 1, active |-> gr.counter + 1 < len]
                   ELSE [counter |-> 0, active |-> TRUE],
                   len, n - 1)

\* the grain length is positive and has not changed since the first
\* processed sample
LengthFixed == glast.lenfixed /\ gran.grain_length >= 1

\* C24: with a fixed grain length L every active grain has counted less than
\* L; over a fx_process call every slot below the density follows the life
\* cycle sample by sample (idle exactly when the count reaches L, active
\* again with count 0 in the next sample), and every slot from the density
\* on is left as it was.
C24_GrainLifecycle ==
    /\ []((LengthFixed /\ gran.fault = "none") =>
            \A j \in 0..(NUM_GRAINS - 1) :
                gran.grains[j].active => gran.grains[j].counter < gran.grain_length)
    /\ [][(GranProcessRuns /\ LengthFixed /\ gran'.fault = "none") =>
            \A j \in 0..(NUM_GRAINS - 1) :
                IF j < gran.grain_density
                THEN LET after == LifeAfter(gran.grains[j], gran.grain_length,
                                            Len(glast'.in) \div 2)
                     IN  /\ gran'.grains[j].counter = after.counter
                         /\ gran'.grains[j].active = after.active
                ELSE gran'.grains[j] = gran.grains[j]]_vars

\* a grain has run its whole length, gone idle and been scheduled again,
\* while a slot outside a reduced density stayed as it was
C24_Witness ==
    /\ glast.op = "process"
    /\ LengthFixed
    /\ gran.fault = "none"
    /\ glast.frames >= gran.grain_length + 2
    /\ gran.grains[0].active /\ gran.grains[0].counter = 0
    /\ gran.grain_density < NUM_GRAINS

\* C27: with a fixed grain length L below the capacity, a grain scheduled by
\* a fx_process call starts at the write cursor plus some k in 0 .. capacity
\* - L - 1, and the cell a running grain reads next is not the cell at the
\* write cursor while the cursor stands still (freeze on): the grain does
\* not step from the newest captured sample to the oldest.  Stated for the
\* first sample of every call.
C27_ReadWindow ==
    [][(/\ GranProcessRuns
        /\ LengthFixed
        /\ gran.grain_length < BUFFER_SIZE
        /\ gran.grain_density <= NUM_GRAINS) =>
          \A j \in 0..(NUM_GRAINS - 1) :
              (j < gran.grain_density) =>
                  /\ ~gran.grains[j].active =>
                        \E k \in 0..(BUFFER_SIZE - gran.grain_length - 1) :
                            gran'.grains[j].pos =
                                (gran.write_pos + (IF gran.freeze_enabled THEN 0 ELSE 1) + k)
                                    % BUFFER_SIZE
                  /\ (gran.freeze_enabled /\ gran.grains[j].active
                                          /\ gran.grains[j].counter >= 1) =>
                        (gran.grains[j].pos + gran.grains[j].counter) % BUFFER_SIZE
                            # gran.write_pos]_vars

(* ================ claims about the output ring's frames ================ *)
\* C29: whatever the interleaving of audio_task and the transmit callback,
\* the output ring holds a whole number of frames and both of its indices
\* sit on a frame boundary, so that even cells hold left samples and odd
\* cells right ones; a transmit callback that finds fewer samples than it
\* needs pops a whole number of frames and fills every further position of
\* the packet with the last popped sample of that position's own channel.
C29_FrameAligned ==
    /\ [](/\ ringbuffer_size(tx_buffer) % AUDIO_NUM_CHANNELS = 0
          /\ tx_buffer.read % AUDIO_NUM_CHANNELS = 0
          /\ tx_buffer.write % AUDIO_NUM_CHANNELS = 0)
    /\ [][TxCallback =>
            LET S == ((frac_acc + current_sampling_rate) \div USB_SOF_HZ)
                         * AUDIO_NUM_CHANNELS
                have == ringbuffer_size(tx_buffer)
            IN  (0 < have /\ have < S) =>
                  /\ have >= AUDIO_NUM_CHANNELS
                  /\ ringbuffer_size(tx_buffer') = 0
                  /\ \A j \in have..(S - 1) :
                        scratch_out'[j] = scratch_out'[have - AUDIO_NUM_CHANNELS
                                                       + (j % AUDIO_NUM_CHANNELS)]]_vars

\* at twice the nominal rate the ring holds one quantum that lies past the
\* wrap of the write index: an earlier quantum was pushed and popped, by a
\* tick that needed two, before this one was pushed
C29_Witness ==
    /\ current_sampling_rate = 2 * NominalRate
    /\ ringbuffer_size(tx_buffer) = rx_samples
    /\ tx_buffer.write < tx_buffer.read
    /\ pc = "idle"

=============================================================================
